---- MODULE Spec2Model ----
(***************************************************************************)
(* The "last-seen" list resource of anna_app.py (class LastOnlineList):    *)
(* the in-memory dict server_user_list, the POST handler that replaces it  *)
(* and the GET handler that renders one of its lists.                      *)
(*                                                                         *)
(* A Python str is a sequence of code points (naturals), so that the       *)
(* schema's pattern, str.lower, html.escape and the string order used by   *)
(* sorted() are computed on characters.  A decoded JSON value is a record  *)
(* [type, val], type being the JSON Schema type name of the value.         *)
(***************************************************************************)
EXTENDS Integers, Sequences, FiniteSets, TLC

VARIABLES
    server_user_list,   \* self.server_user_list: dict server_id -> list of user dicts
    req,                \* the request handled last (sequential handling)
    resp,               \* the response the handler left for it
    before,             \* history: server_user_list as that handler found it
    thr                 \* per worker thread: position, request, locals, response

vars == <<server_user_list, req, resp, before, thr>>

-----------------------------------------------------------------------------
(* Bounds of the explored inputs *)

MaxUsers == 2
MaxServers == 2

-----------------------------------------------------------------------------
(* JSON values as json.loads produces them *)

JNull == [type |-> "null", val |-> <<>>]
JNum(n) == [type |-> "number", val |-> <<n>>]
JStr(s) == [type |-> "string", val |-> s]
JArr(a) == [type |-> "array", val |-> a]
JObj(o) == [type |-> "object", val |-> o]

\* dict.get / "key in dict" on a decoded object
HasKey(o, k) == k \in DOMAIN o.val

-----------------------------------------------------------------------------
(* The double decode of on_post, lines 82-93.                              *)
(* A body is [layer, data]:                                                *)
(*   bad_utf8    the bytes are not UTF-8 (bytes.decode raises)             *)
(*   bad_json    the text is not JSON (the inner json.loads raises)        *)
(*   single      the text is the JSON encoding of data, data not a string: *)
(*               the outer json.loads is handed a non-str object           *)
(*   double_bad  the text encodes a JSON string whose content is not JSON  *)
(*   double      the text encodes a JSON string whose content encodes data *)

JsonLoadsTwice(body) ==
    CASE body.layer = "bad_utf8"   -> [exc |-> "UnicodeDecodeError", value |-> JNull]
      [] body.layer = "bad_json"   -> [exc |-> "JSONDecodeError", value |-> JNull]
      [] body.layer = "double_bad" -> [exc |-> "JSONDecodeError", value |-> JNull]
      [] body.layer = "single"     -> [exc |-> "TypeError", value |-> JNull]
      [] OTHER                     -> [exc |-> "none", value |-> body.data]

-----------------------------------------------------------------------------
(* post_json_schema, lines 24-54, as jsonschema.validate applies it:       *)
(* "type" constrains every instance; "required", "properties" and "items"  *)
(* constrain only objects resp. arrays and ignore any other instance;      *)
(* "pattern" is applied with re.search.                                    *)

IsDigit(c) == c \in 48..57

\* re.search("^[1-9][0-9]+$", s): "$" also matches before one final newline
FullMatchId(s) ==
    /\ Len(s) >= 2
    /\ s[1] \in 49..57
    /\ \A i \in 2..Len(s) : IsDigit(s[i])

ServerIdPattern(s) ==
    \/ FullMatchId(s)
    \/ Len(s) >= 1 /\ s[Len(s)] = 10 /\ FullMatchId(SubSeq(s, 1, Len(s) - 1))

Required(v, keys) == v.type = "object" => \A k \in keys : HasKey(v, k)

\* "properties": {k: {"type": "string"}} for one key k
StringProperty(v, k) == (v.type = "object" /\ HasKey(v, k)) => v.val[k].type = "string"

ValidUserItem(u) ==
    /\ u.type = "object"
    /\ Required(u, {"username", "icon_url", "last_seen_time"})
    /\ StringProperty(u, "username")
    /\ StringProperty(u, "icon_url")
    /\ StringProperty(u, "last_seen_time")

ValidServerItem(s) ==
    /\ s.type = "object"
    /\ Required(s, {"server_id", "users"})
    /\ HasKey(s, "server_id") =>
          /\ s.val["server_id"].type = "string"
          /\ ServerIdPattern(s.val["server_id"].val)
    /\ HasKey(s, "users") =>
          /\ s.val["users"].type = "array"
          /\ \A i \in 1..Len(s.val["users"].val) : ValidUserItem(s.val["users"].val[i])

\* validate(new_user_data, self.post_json_schema) does not raise
validate(d) ==
    /\ Required(d, {"servers", "auth_token"})
    /\ (d.type = "object" /\ HasKey(d, "servers")) =>
          /\ d.val["servers"].type = "array"
          /\ \A i \in 1..Len(d.val["servers"].val) : ValidServerItem(d.val["servers"].val[i])
    /\ StringProperty(d, "auth_token")

-----------------------------------------------------------------------------
(* Responses *)

Response(status, ctype, text, entries) ==
    [status |-> status, content_type |-> ctype, text |-> text, entries |-> entries]

\* an exception no handler catches leaves on_post / on_get
Unhandled(exc) == Response(500, "default", exc, <<>>)

NoResponse == Response(0, "default", "", <<>>)

-----------------------------------------------------------------------------
(* on_post, lines 78-127 *)

\* self.config["last_online_list"]["post_auth_token"], read from config.json: "s3"
post_auth_token == <<115, 51>>

\* variant: an empty token passes as well
AuthOkOrEmpty(d) ==
    \/ post_auth_token = d.val["auth_token"].val
    \/ d.val["auth_token"].val = <<>>

\* line 109: config token == new_user_data["auth_token"]
AuthOk(d) == post_auth_token = d.val["auth_token"].val

\* line 119, right-hand side:
\* {server["server_id"]: server["users"] for server in new_user_data["servers"]}
\* (a key given twice keeps the value of its last entry)
DictOfServers(d) ==
    LET servers == d.val["servers"].val
        IdOf(i) == servers[i].val["server_id"].val
        ids == {IdOf(i) : i \in 1..Len(servers)}
        LastOf(id) == CHOOSE i \in 1..Len(servers) :
                         /\ IdOf(i) = id
                         /\ \A j \in (i + 1)..Len(servers) : IdOf(j) # id
    IN  [id \in ids |-> servers[LastOf(id)].val["users"].val]

\* variant: each named key is assigned in the old dict, the other keys stay
UpdatedListPerKey(store, d) ==
    LET new == DictOfServers(d)
    IN  [id \in DOMAIN store \cup DOMAIN new |->
            IF id \in DOMAIN new THEN new[id] ELSE store[id]]

\* variant: the users of a key already present are added to its old list
UpdatedListExtend(store, d) ==
    LET new == DictOfServers(d)
    IN  [id \in DOMAIN new |->
            IF id \in DOMAIN store THEN store[id] \o new[id] ELSE new[id]]

\* line 119: self.server_user_list = {...}, the attribute's new value
UpdatedList(store, d) == DictOfServers(d)

\* the whole handler: the response it leaves and the dict afterwards
PostResult(store, body) ==
    LET dec == JsonLoadsTwice(body)
        d == dec.value
    IN  IF dec.exc \in {"JSONDecodeError", "UnicodeDecodeError"}
        THEN [resp |-> Response(400, "default", "Invalid json.", <<>>), store |-> store]
        ELSE IF dec.exc # "none"
        THEN [resp |-> Unhandled(dec.exc), store |-> store]
        ELSE IF ~validate(d)
        THEN [resp |-> Response(400, "default", "Invalid json format.", <<>>), store |-> store]
        ELSE IF d.type # "object"
        THEN [resp |-> Unhandled("TypeError"), store |-> store]
        ELSE IF ~AuthOk(d)
        THEN [resp |-> Response(403, "default", "Incorrect auth token.", <<>>), store |-> store]
        ELSE [resp |-> Response(200, "text/plain",
                                "Successfully updated user and last-seen list.", <<>>),
              store |-> UpdatedList(store, d)]

-----------------------------------------------------------------------------
(* on_get, lines 129-184 *)

\* str.lower on the characters used here (ASCII)
LowerChar(c) == IF c \in 65..90 THEN c + 32 ELSE c

lower(s) == [i \in 1..Len(s) |-> LowerChar(s[i])]

\* html.escape(s, quote=True), character by character
EscapeChar(c) ==
    CASE c = 38 -> <<38, 97, 109, 112, 59>>
      [] c = 60 -> <<38, 108, 116, 59>>
      [] c = 62 -> <<38, 103, 116, 59>>
      [] c = 34 -> <<38, 113, 117, 111, 116, 59>>
      [] c = 39 -> <<38, 35, 120, 50, 55, 59>>
      [] OTHER  -> <<c>>

RECURSIVE htmlescape(_)
htmlescape(s) == IF s = <<>> THEN <<>> ELSE EscapeChar(Head(s)) \o htmlescape(Tail(s))

\* a < b for two str: the order of code points, a proper prefix first
StrLess(a, b) ==
    \E i \in 1..Len(b) :
        /\ i <= Len(a) + 1
        /\ \A j \in 1..(i - 1) : a[j] = b[j]
        /\ IF i = Len(a) + 1 THEN TRUE ELSE a[i] < b[i]

\* variant: the key without .lower()
SortKeyNoLower(user) == htmlescape(user.val["username"].val)

\* line 168: key=lambda user: htmlescape(user["username"].lower(), quote=True)
SortKey(user) == htmlescape(lower(user.val["username"].val))

\* sorted(): stable, an element goes behind every element whose key is not greater
InsertSorted(l, x) ==
    LET n == Cardinality({i \in 1..Len(l) : ~StrLess(SortKey(x), SortKey(l[i]))})
    IN  SubSeq(l, 1, n) \o <<x>> \o SubSeq(l, n + 1, Len(l))

RECURSIVE sorted(_)
sorted(l) ==
    IF l = <<>> THEN <<>>
    ELSE InsertSorted(sorted(SubSeq(l, 1, Len(l) - 1)), l[Len(l)])

\* line 172: the arguments {0}, {1}, {2} given to dynamic_html.format
ListEntry(x) ==
    <<x.val["icon_url"].val, htmlescape(x.val["username"].val), x.val["last_seen_time"].val>>

\* lines 167-179: static_html.format("".join(list_entries_html)), kept as the
\* sequence of the entries joined
RenderPage(users) ==
    LET user_sorted_list == sorted(users)
    IN  Response(200, "text/html", "static_html",
                 [i \in 1..Len(user_sorted_list) |-> ListEntry(user_sorted_list[i])])

NotFound == Response(404, "default", "That server hasn't enabled this feature.", <<>>)

\* variant: of several values the first one is looked up
GetResultFirstValue(store, values) ==
    IF Len(values) = 0 THEN NotFound
    ELSE IF values[1] \notin DOMAIN store THEN NotFound
    ELSE RenderPage(store[values[1]])

\* req.params.get("serverid"): None when absent, a str when given once, a list
\* when given several times; values is the sequence of the values given
GetResult(store, values) ==
    IF Len(values) = 0 THEN NotFound
    ELSE IF Len(values) > 1 THEN NotFound
    ELSE IF values[1] \notin DOMAIN store THEN NotFound
    ELSE RenderPage(store[values[1]])

-----------------------------------------------------------------------------
(* The requests explored *)

Id12 == <<49, 50>>          \* "12"
Id10 == <<49, 48>>          \* "10"
Id7 == <<55>>               \* "7"
Id0 == <<48>>               \* "0"
Id07 == <<48, 55>>          \* "07"
Id1a == <<49, 97>>          \* "1a"
IdEmpty == <<>>             \* ""
Id12nl == <<49, 50, 10>>    \* "12\n"

AllIds == {Id12, Id10, Id7, Id0, Id07, Id1a, IdEmpty, Id12nl}

WrongToken == <<120>>       \* "x"

NameBlt == <<66, 60>>       \* "B<"
Nameblt == <<98, 60>>       \* "b<"
Namebgt == <<98, 62>>       \* "b>"

Usernames == {NameBlt, Nameblt, Namebgt}

\* icon_url "<i", last_seen_time ">"
User(name) ==
    JObj([username |-> JStr(name), icon_url |-> JStr(<<60, 105>>),
          last_seen_time |-> JStr(<<62>>)])

Users == {User(n) : n \in Usernames}

SeqsUpTo(S, n) == UNION {[1..k -> S] : k \in 0..n}

Server(id, users) == JObj([server_id |-> JStr(id), users |-> JArr(users)])

Payload(servers, token) == JObj([servers |-> JArr(servers), auth_token |-> JStr(token)])

\* one community with any list of up to MaxUsers users
DeepPayloads ==
    {Payload(<<Server(Id12, l)>>, post_auth_token) : l \in SeqsUpTo(Users, MaxUsers)}

\* up to MaxServers communities (ids may repeat) with short lists
WideServers ==
    {Server(Id12, <<>>), Server(Id12, <<User(Nameblt)>>), Server(Id10, <<User(Nameblt)>>)}

WidePayloads ==
    {Payload(s, post_auth_token) : s \in SeqsUpTo(WideServers, MaxServers)}

\* one community under each id
IdPayloads == {Payload(<<Server(id, <<User(NameBlt)>>)>>, post_auth_token) : id \in AllIds}

\* well-formed but for the token
WrongTokenPayloads ==
    {Payload(<<Server(id, <<User(Namebgt)>>)>>, t) :
        id \in {Id10, Id7}, t \in {WrongToken, <<>>}}

GoodServer == Server(Id12, <<User(NameBlt)>>)

\* decoded values that do not have the shape of the schema
MalformedFor(t) ==
    { JObj([servers |-> JArr(<<GoodServer>>)]),
      JObj([auth_token |-> JStr(t)]),
      JObj([servers |-> JArr(<<GoodServer>>), auth_token |-> JNum(1)]),
      JObj([servers |-> GoodServer, auth_token |-> JStr(t)]),
      JObj([servers |-> JStr(Id12), auth_token |-> JStr(t)]),
      Payload(<<JNum(1)>>, t),
      Payload(<<GoodServer, JArr(<<>>)>>, t),
      Payload(<<JObj([users |-> JArr(<<>>)])>>, t),
      Payload(<<JObj([server_id |-> JStr(Id12)])>>, t),
      Payload(<<JObj([server_id |-> JNum(12), users |-> JArr(<<>>)])>>, t),
      Payload(<<JObj([server_id |-> JStr(Id12), users |-> JNull])>>, t),
      Payload(<<JObj([server_id |-> JStr(Id12), users |-> User(NameBlt)])>>, t),
      Payload(<<Server(Id12, <<JStr(NameBlt)>>)>>, t),
      Payload(<<Server(Id12, <<User(NameBlt), JNull>>)>>, t),
      Payload(<<Server(Id12, <<JObj([username |-> JStr(NameBlt),
                                     icon_url |-> JStr(<<60, 105>>)])>>)>>, t),
      Payload(<<Server(Id12, <<JObj([username |-> JNum(1),
                                     icon_url |-> JStr(<<60, 105>>),
                                     last_seen_time |-> JStr(<<62>>)])>>)>>, t),
      Payload(<<GoodServer,
                Server(Id10, <<User(NameBlt),
                               JObj([username |-> JStr(NameBlt),
                                     icon_url |-> JStr(<<60, 105>>),
                                     last_seen_time |-> JNum(1)])>>)>>, t) }

\* decoded values that are not an object at the top
NonObjects ==
    { JNull, JNum(1), JStr(Id12), JArr(<<>>),
      JArr(<<Payload(<<GoodServer>>, post_auth_token)>>) }

Decoded ==
    DeepPayloads \cup WidePayloads \cup IdPayloads \cup WrongTokenPayloads
        \cup MalformedFor(post_auth_token) \cup MalformedFor(WrongToken) \cup NonObjects

Body(layer, data) == [layer |-> layer, data |-> data]

PostBodies ==
    {Body("double", d) : d \in Decoded}
        \cup {Body("single", d) : d \in {JNull, JNum(1), JArr(<<>>),
                                          Payload(<<GoodServer>>, post_auth_token)}}
        \cup {Body(l, JNull) : l \in {"bad_utf8", "bad_json", "double_bad"}}

\* the values of the query parameter serverid
GetParams ==
    {<<>>, <<Id12, Id12>>, <<Id12, Id10>>} \cup {<<id>> : id \in {Id12, Id10, Id7, Id12nl}}

Request(method, body, serverid) == [method |-> method, body |-> body, serverid |-> serverid]

NoRequest == Request("none", Body("none", JNull), <<>>)

-----------------------------------------------------------------------------
(* Requests handled one at a time *)

Threads == {"t1", "t2", "t3"}

Idle == [pc |-> "idle", req |-> NoRequest, resp |-> NoResponse, new_list |-> <<>>]

Init ==
    /\ server_user_list = <<>>
    /\ req = NoRequest
    /\ resp = NoResponse
    /\ before = <<>>
    /\ thr = [t \in Threads |-> Idle]

on_post ==
    \E body \in PostBodies :
        LET r == PostResult(server_user_list, body)
        IN  /\ req' = Request("POST", body, <<>>)
            /\ resp' = r.resp
            /\ server_user_list' = r.store
            /\ before' = server_user_list
            /\ UNCHANGED thr

on_get ==
    \E values \in GetParams :
        /\ req' = Request("GET", Body("none", JNull), values)
        /\ resp' = GetResult(server_user_list, values)
        /\ before' = server_user_list
        /\ UNCHANGED <<server_user_list, thr>>

Next == on_post \/ on_get

Spec == Init /\ [][Next]_vars

-----------------------------------------------------------------------------
(* Requests handled by threads of one process (a threaded WSGI server):    *)
(* the handlers interleave between their reads and writes of the attribute *)
(* self.server_user_list; everything else they touch is local.             *)

ConcBodies ==
    {Body("double", d) :
        d \in { Payload(<<Server(Id12, <<User(Nameblt)>>)>>, post_auth_token),
                Payload(<<Server(Id10, <<User(Namebgt)>>)>>, post_auth_token),
                Payload(<<Server(Id12, <<>>), Server(Id10, <<User(NameBlt)>>)>>, post_auth_token),
                Payload(<<Server(Id12, <<User(NameBlt)>>)>>, WrongToken) }}

ConcParams == {<<>>, <<Id12>>, <<Id10>>}

Thread(pc, r, rsp, new) == [pc |-> pc, req |-> r, resp |-> rsp, new_list |-> new]

\* lines 81-119 up to the evaluation of the dict comprehension: no shared read
post_build(t) ==
    /\ thr[t].pc = "idle"
    /\ \E body \in ConcBodies :
          LET r == PostResult(<<>>, body)
              rq == Request("POST", body, <<>>)
          IN  thr' = [thr EXCEPT ![t] =
                        IF r.resp.status = 200
                        THEN Thread("line_119", rq, NoResponse, r.store)
                        ELSE Thread("done", rq, r.resp, <<>>)]
    /\ UNCHANGED <<server_user_list, req, resp, before>>

\* line 119, the assignment of the attribute, and lines 121-127
post_assign(t) ==
    /\ thr[t].pc = "line_119"
    /\ server_user_list' = thr[t].new_list
    /\ thr' = [thr EXCEPT ![t] =
                 Thread("done", thr[t].req,
                        Response(200, "text/plain",
                                 "Successfully updated user and last-seen list.", <<>>),
                        <<>>)]
    /\ UNCHANGED <<req, resp, before>>

\* lines 133-163: the parameter checks and the membership test, which reads
\* the attribute once
get_check(t) ==
    /\ thr[t].pc = "idle"
    /\ \E values \in ConcParams :
          LET rq == Request("GET", Body("none", JNull), values)
          IN  thr' = [thr EXCEPT ![t] =
                        IF Len(values) = 1 /\ values[1] \in DOMAIN server_user_list
                        THEN Thread("line_167", rq, NoResponse, <<>>)
                        ELSE Thread("done", rq, NotFound, <<>>)]
    /\ UNCHANGED <<server_user_list, req, resp, before>>

\* lines 167-184: the attribute is read again and subscripted; a key that is
\* no longer in the dict raises KeyError, which nothing catches
get_render(t) ==
    /\ thr[t].pc = "line_167"
    /\ LET id == thr[t].req.serverid[1]
       IN  thr' = [thr EXCEPT ![t] =
                     Thread("done", thr[t].req,
                            IF id \in DOMAIN server_user_list
                            THEN RenderPage(server_user_list[id])
                            ELSE Unhandled("KeyError"),
                            <<>>)]
    /\ UNCHANGED <<server_user_list, req, resp, before>>

\* the response is sent and the thread takes the next request
respond(t) ==
    /\ thr[t].pc = "done"
    /\ thr' = [thr EXCEPT ![t] = Idle]
    /\ UNCHANGED <<server_user_list, req, resp, before>>

NextConc ==
    \E t \in Threads :
        \/ post_build(t)
        \/ post_assign(t)
        \/ get_check(t)
        \/ get_render(t)
        \/ respond(t)

SpecConc == Init /\ [][NextConc]_vars

-----------------------------------------------------------------------------
(* Properties of requests handled one at a time.  req and resp are the     *)
(* request handled last and its response, before is the dict that handler  *)
(* found and server_user_list the dict it left.                            *)

IsPost == req.method = "POST"
IsGet == req.method = "GET"
Decodes == JsonLoadsTwice(req.body).exc = "none"
Data == req.body.data
Accepted == IsPost /\ resp.status = 200

\* of an accepted write: the entries of its servers array
Servers == Data.val["servers"].val
IdAt(i) == Servers[i].val["server_id"].val
UsersAt(i) == Servers[i].val["users"].val
NamedIds == {IdAt(i) : i \in 1..Len(Servers)}
DistinctIds == \A i, j \in 1..Len(Servers) : IdAt(i) = IdAt(j) => i = j

\* the id pattern of the specification, ^[1-9][0-9]*$: digits, no leading zero
SpecIdPattern(s) ==
    /\ Len(s) >= 1
    /\ s[1] \in 49..57
    /\ \A i \in 1..Len(s) : s[i] \in 48..57

\* the shape the specification requires of a decoded write
IsStringField(o, k) == HasKey(o, k) /\ o.val[k].type = "string"

UserHasShape(u) ==
    /\ u.type = "object"
    /\ IsStringField(u, "username")
    /\ IsStringField(u, "icon_url")
    /\ IsStringField(u, "last_seen_time")

ServerHasShape(sv) ==
    /\ sv.type = "object"
    /\ IsStringField(sv, "server_id")
    /\ SpecIdPattern(sv.val["server_id"].val)
    /\ HasKey(sv, "users")
    /\ sv.val["users"].type = "array"
    /\ \A i \in 1..Len(sv.val["users"].val) : UserHasShape(sv.val["users"].val[i])

HasShape(d) ==
    /\ d.type = "object"
    /\ IsStringField(d, "auth_token")
    /\ HasKey(d, "servers")
    /\ d.val["servers"].type = "array"
    /\ \A i \in 1..Len(d.val["servers"].val) : ServerHasShape(d.val["servers"].val[i])

\* C1 as stated: after an accepted write every community that was in the
\* store before and is not named in the request is still there with its
\* previous user list, so that no community is ever removed.
C1_UnnamedKept ==
    Accepted =>
        \A c \in DOMAIN before :
            c \in NamedIds \/ (c \in DOMAIN server_user_list /\ server_user_list[c] = before[c])

\* C1 amended: after an accepted write the store holds exactly the
\* communities the request names; every community that was in the store
\* before and is not named in the request is removed by it.
C1_UnnamedRemoved ==
    Accepted =>
        /\ DOMAIN server_user_list = NamedIds
        /\ \A c \in DOMAIN before : c \notin NamedIds => c \notin DOMAIN server_user_list

C1_Witness ==
    /\ Accepted
    /\ \E c \in DOMAIN before : c \notin NamedIds /\ c \notin DOMAIN server_user_list

\* C2: after an accepted write with distinct server_ids the store maps each
\* named id to exactly the users list of its entry, whatever list the id had
\* before (no merge); written over a store that the same payload produced,
\* the payload leaves that store as it is.
C2_StoreIsPayload ==
    (Accepted /\ DistinctIds) =>
        /\ \A i \in 1..Len(Servers) :
              /\ IdAt(i) \in DOMAIN server_user_list
              /\ server_user_list[IdAt(i)] = UsersAt(i)
        /\ (/\ DOMAIN before = NamedIds
            /\ \A i \in 1..Len(Servers) : before[IdAt(i)] = UsersAt(i))
              => server_user_list = before

C2_Witness ==
    /\ Accepted
    /\ DistinctIds
    /\ \E c \in NamedIds \cap DOMAIN before :
          /\ before[c] # <<>>
          /\ server_user_list[c] # before[c]
          /\ \E k \in 1..Len(before[c]) :
                \A m \in 1..Len(server_user_list[c]) : server_user_list[c][m] # before[c][k]

C4_ShapelessRejected ==
    (IsPost /\ Decodes /\ ~HasShape(Data)) =>
        /\ resp.status = 400
        /\ resp.text = "Invalid json format."
        /\ server_user_list = before

\* C5: an otherwise valid, authenticated write of one community is answered
\* 200 exactly when its server_id is a non-empty string of digits without a
\* leading zero, and 400 otherwise.
C5_IdAccepted ==
    (IsPost /\ Decodes /\ Data \in IdPayloads) =>
        IF SpecIdPattern(IdAt(1)) THEN resp.status = 200 ELSE resp.status = 400

\* C6: a write that decodes, does not have the required shape and carries a
\* wrong or no auth_token is answered 400 "Invalid json format.", the first
\* failing check deciding, and never 403.
C6_InvalidBeforeToken ==
    (/\ IsPost
     /\ Decodes
     /\ ~HasShape(Data)
     /\ ~(Data.type = "object" /\ IsStringField(Data, "auth_token")
            /\ Data.val["auth_token"].val = post_auth_token))
        => /\ resp.status = 400
           /\ resp.text = "Invalid json format."

\* C7: a GET answers 200 with content type text/html exactly when one
\* serverid is given and it is a key of the store, otherwise (parameter
\* absent, given more than once, or not a key) 404 "That server hasn't
\* enabled this feature."; it leaves the store as it was.
C7_GetAnswers ==
    IsGet =>
        /\ server_user_list = before
        /\ IF Len(req.serverid) = 1 /\ req.serverid[1] \in DOMAIN server_user_list
           THEN resp.status = 200 /\ resp.content_type = "text/html"
           ELSE /\ resp.status = 404
                /\ resp.text = "That server hasn't enabled this feature."
                /\ resp.entries = <<>>

C7_Witness ==
    /\ IsGet
    /\ Len(req.serverid) = 2
    /\ req.serverid[1] \in DOMAIN server_user_list
    /\ resp.status = 404

\* the key of the specification: escape(lowercase(username))
EscapedLowerName(u) == htmlescape(lower(u.val["username"].val))

\* C9: a 200 GET renders one entry per stored record, a permutation of the
\* stored list, in non-decreasing order of escape(lowercase(username)),
\* records of equal key in their stored order; each entry carries the raw
\* icon_url, the escaped username (no <, >, " or ' left in it) and the raw
\* last_seen_time, in that order.
C9_Rendered ==
    (IsGet /\ resp.status = 200) =>
        LET list == server_user_list[req.serverid[1]]
            n == Len(list)
        IN  /\ Len(resp.entries) = n
            /\ \E p \in Permutations(1..n) :
                  /\ \A i \in 1..n :
                        resp.entries[i] =
                            <<list[p[i]].val["icon_url"].val,
                              htmlescape(list[p[i]].val["username"].val),
                              list[p[i]].val["last_seen_time"].val>>
                  /\ \A i, j \in 1..n :
                        i < j =>
                            /\ ~StrLess(EscapedLowerName(list[p[j]]), EscapedLowerName(list[p[i]]))
                            /\ EscapedLowerName(list[p[i]]) = EscapedLowerName(list[p[j]])
                                  => p[i] < p[j]
            /\ \A i \in 1..n :
                  \A k \in 1..Len(resp.entries[i][2]) :
                      resp.entries[i][2][k] \notin {60, 62, 34, 39}

C9_Witness ==
    /\ IsGet
    /\ resp.status = 200
    /\ Len(resp.entries) = 2
    /\ LET list == server_user_list[req.serverid[1]]
       IN  /\ list[1] # list[2]
           /\ resp.entries[1][2] = htmlescape(list[2].val["username"].val)
           /\ resp.entries[1][2] # list[2].val["username"].val

\* C10: every write ends in one of the four documented outcomes, and a body
\* that does not decode through both JSON layers is answered 400 "Invalid
\* json." with the store unchanged.
C10_FourOutcomes ==
    IsPost =>
        /\ <<resp.status, resp.text>> \in
              { <<200, "Successfully updated user and last-seen list.">>,
                <<400, "Invalid json.">>,
                <<400, "Invalid json format.">>,
                <<403, "Incorrect auth token.">> }
        /\ ~Decodes =>
              /\ resp.status = 400
              /\ resp.text = "Invalid json."
              /\ server_user_list = before

\* C8: with handlers interleaved at the reads and writes of the attribute
\* server_user_list, a GET that has found its community present in the store
\* completes with the rendered page of that community and never fails.
C8_GetNeverFails ==
    \A t \in Threads :
        (thr[t].pc = "done" /\ thr[t].req.method = "GET" /\ Len(thr[t].req.serverid) = 1)
            => thr[t].resp.status \in {200, 404}

====
